---- MODULE Spec2Model ----
(***************************************************************************)
(* TimeClock: the department service (role checks, memberships, rollups),  *)
(* the schedule conflict detector and the clock-in / clock-out lifecycle.  *)
(***************************************************************************)
EXTENDS Integers, Sequences, FiniteSets, TLC

(***************************************************************************)
(* Bounds of the model.                                                    *)
(***************************************************************************)
\* number of service calls started in one behaviour
MaxOps == 2

\* number of schedules handed to checkScheduleConflicts
MaxSchedules == 3

\* number of shifts of one schedule
MaxShifts == 2

\* number of presses of a clock button
MaxPresses == 3

\* number of times the time advances
MaxTicks == 2

(***************************************************************************)
(* The user table (never written by the service), and the value domains.   *)
(***************************************************************************)
Users == {"ann", "bob", "cy"}

\* an actor id with no row in the user table
Ghost == "ghost"

Actors == Users \cup {Ghost}

\* user.role of the user table: the global role
UserRole == [u \in Users |-> IF u = "ann" THEN "ADMIN" ELSE "USER"]

DeptIds == {"d1", "d2"}

Names == {"Sales", "Ops"}

\* EmployeeDepartmentRole
DeptRoles == {"MEMBER", "MANAGER", "ADMIN"}

\* userDeparmentRole?.role of a membership that does not exist
NoRole == "NONE"

\* the role, hourly rate and position an addEmployeeToDepartment call is given
Grants ==
  {[role |-> "MEMBER", rate |-> 15, position |-> "clerk"],
   [role |-> "MANAGER", rate |-> 20, position |-> "cook"],
   [role |-> "ADMIN", rate |-> 20, position |-> "clerk"],
   [role |-> "MEMBER", rate |-> -5, position |-> "cook"]}

Slots == {1, 2}

VARIABLES
  departments,   \* rows of the department table: [id, name]
  memberships,   \* rows of the employeeDepartment table
  nextId,        \* the next generated employeeDepartment.id
  reqs,          \* the service calls in flight, one per slot
  last,          \* the call that returned last, with its result
  nops,          \* number of calls started
  clients,       \* number of clients calling the service, each one call at a time
  schedules,     \* ScheduleView: the schedules state, one entry per fetched schedule
  hasConflict,   \* ScheduleView: result of checkScheduleConflicts(schedules)
  conflicts,
  rendered,      \* ScheduleView has rendered the fetched schedules
  timeEntries,   \* rows of the timeEntry table
  nextEntryId,   \* the next generated timeEntry.id
  now,           \* the time, in seconds
  nticks,        \* number of times the time has advanced
  npress,        \* number of presses of a clock button
  requests,      \* handleClockInOut invocations awaiting their server action
  sessUser,      \* useSession().data.user.id of each page
  selectedDepartment,  \* TimeClock: selectedDepartment of each page
  currentEntry,  \* TimeEntryProvider: currentEntry of each page
  recentEntries, \* TimeEntryProvider: recentEntries of each page
  toasts,        \* the notifications each page has shown
  pageDepartments, \* DepartmentManagement: the departments state of each page
  time           \* TimeClock: the time state of each page, as <<HH, MM, SS>>

deptVars == <<departments, memberships, nextId, reqs, last, nops, clients>>

schedVars == <<schedules, hasConflict, conflicts, rendered>>

clockVars ==
  <<timeEntries, nextEntryId, now, nticks, npress, requests, sessUser,
    selectedDepartment, currentEntry, recentEntries, toasts, pageDepartments,
    time>>

vars == <<deptVars, schedVars, clockVars>>

(***************************************************************************)
(* Rows and results.                                                       *)
(***************************************************************************)
Row(id, u, d, role, rate, pos) ==
  [id |-> id, userId |-> u, departmentId |-> d, role |-> role,
   hourlyRate |-> rate, position |-> pos]

\* a null result of a service call
NullRet == [ok |-> FALSE, id |-> "", name |-> "", employeeCount |-> 0, totalCost |-> 0]

\* a DepartmentViewInterface result
View(dep, count, cost) ==
  [ok |-> TRUE, id |-> dep.id, name |-> dep.name, employeeCount |-> count, totalCost |-> cost]

DeptExists(deps, d) == \E x \in deps : x.id = d

DeptOf(deps, d) == CHOOSE x \in deps : x.id = d

RowsOf(ms, u, d) == {m \in ms : m.userId = u /\ m.departmentId = d}

\* RoleOf with the departmentId condition of the lookup left out
RoleOf_AnyDepartment(ms, u, d) ==
  IF {m \in ms : m.userId = u} = {} THEN NoRole
  ELSE (CHOOSE m \in ms : m.userId = u).role

\* db.employeeDepartment.findFirst({ where: { userId, departmentId } })?.role
RoleOf(ms, u, d) ==
  IF RowsOf(ms, u, d) = {} THEN NoRole ELSE (CHOOSE m \in RowsOf(ms, u, d) : TRUE).role

RECURSIVE SumRates(_)
SumRates(ms) ==
  IF ms = {} THEN 0
  ELSE LET m == CHOOSE x \in ms : TRUE IN m.hourlyRate + SumRates(ms \ {m})

\* getTotalEmployeeCount with the where clause left out
getTotalEmployeeCount_AllRows(ms, d) == Cardinality(ms)

\* db.employeeDepartment.count({ where: { departmentId } })
getTotalEmployeeCount(ms, d) == Cardinality({m \in ms : m.departmentId = d})

\* getEmployeeCost with the where clause left out
getEmployeeCost_AllRows(ms, d) == SumRates(ms)

\* the sum of hourlyRate over the rows of the department
getEmployeeCost(ms, d) == SumRates({m \in ms : m.departmentId = d})

(***************************************************************************)
(* The permission checks.                                                  *)
(***************************************************************************)
\* IsGlobalAdmin with the role comparison left out
IsGlobalAdmin_AnyUser(actor) == actor \in Users

\* !user || user.role !== "ADMIN"  (negated)
IsGlobalAdmin(actor) == actor \in Users /\ UserRole[actor] = "ADMIN"

\* updateDepartment, addEmployeeToDepartment, updateEmployeeRole:
\* !(!user || (user.role !== ADMIN && userDeparmentRole?.role !== MANAGER))
HasManagePermission(actor, role) ==
  actor \in Users /\ (UserRole[actor] = "ADMIN" \/ role = "MANAGER")

\* HasRemovePermission without user.role === ADMIN
HasRemovePermission_RolesOnly(actor, role) ==
  actor \in Users /\ (role = "MANAGER" \/ role = "ADMIN")

\* removeEmployeeFromDepartment: user found and hasPermission
HasRemovePermission(actor, role) ==
  actor \in Users /\ (UserRole[actor] = "ADMIN" \/ role = "MANAGER" \/ role = "ADMIN")

(***************************************************************************)
(* Calls in flight.  A call that awaits the datastore several times is a   *)
(* sequence of steps; pc names the next one.  pre is the membership table  *)
(* when the call started (used to state the claims only).                  *)
(***************************************************************************)
NoDept == [id |-> "", name |-> ""]

Idle ==
  [pc |-> "idle", seq |-> 0, op |-> "", userId |-> "", departmentId |-> "",
   employeeId |-> "", role |-> "", rate |-> 0, position |-> "",
   department |-> NoDept, employeeExists |-> FALSE, employeeCount |-> 0,
   deleted |-> {}, pre |-> {}]

NoCall ==
  [seq |-> 0, op |-> "", userId |-> "", departmentId |-> "", employeeId |-> "",
   role |-> "", rate |-> 0, position |-> "", ret |-> NullRet, pre |-> {},
   denied |-> FALSE, session |-> "", list |-> {}]

\* rows whose deletion is staged in a transaction that has not committed
Locked == UNION {reqs[s].deleted : s \in Slots}

\* the record of a call that returns; denied marks a return from the branch
\* of the permission check, session is the signed-in user whose role
\* currentRole() yields, list is the array a listing returns
Returned(seq, op, actor, d, e, role, rate, pos, ret, pre) ==
  [seq |-> seq, op |-> op, userId |-> actor, departmentId |-> d, employeeId |-> e,
   role |-> role, rate |-> rate, position |-> pos, ret |-> ret, pre |-> pre,
   denied |-> FALSE, session |-> "", list |-> {}]

ReturnOf(r, ret) ==
  Returned(r.seq, r.op, r.userId, r.departmentId, r.employeeId, r.role, r.rate,
           r.position, ret, r.pre)

\* the result of an operation that returns a plain row or null
RowRet(ok, d, name) ==
  [ok |-> ok, id |-> d, name |-> name, employeeCount |-> 0, totalCost |-> 0]

\* some client has no call in flight, and the bound on calls is not reached
CanCall ==
  /\ nops < MaxOps
  /\ \E s \in Slots : s <= clients /\ reqs[s].pc = "idle"

\* a call that is one datastore write at most: it starts and returns in one step
Atomic(op, actor, d, e, role, name, ret) ==
  /\ nops' = nops + 1
  /\ last' = Returned(nops + 1, op, actor, d, e, role, 0, name, ret, memberships)
  /\ UNCHANGED <<reqs, clients, schedVars, clockVars>>

\* a call that returns null from the branch of its permission check
Deny(op, actor, d, e, role, name) ==
  /\ nops' = nops + 1
  /\ last' = [Returned(nops + 1, op, actor, d, e, role, 0, name, NullRet, memberships)
                EXCEPT !.denied = TRUE]
  /\ UNCHANGED <<reqs, clients, schedVars, clockVars>>

(***************************************************************************)
(* createDepartment, updateDepartment, deleteDepartment                    *)
(***************************************************************************)
createDepartment(actor, name) ==
  /\ CanCall
  /\ IF ~IsGlobalAdmin(actor)
     THEN /\ Deny("createDepartment", actor, "", "", "", name)
          /\ UNCHANGED <<departments, memberships, nextId>>
     ELSE \E id \in DeptIds \ {x.id : x \in departments} :
            /\ departments' = departments \cup {[id |-> id, name |-> name]}
            /\ Atomic("createDepartment", actor, id, "", "", name,
                      View([id |-> id, name |-> name], 0, 0))
            /\ UNCHANGED <<memberships, nextId>>

updateDepartment(actor, id, name) ==
  /\ CanCall
  /\ IF ~HasManagePermission(actor, RoleOf(memberships, actor, id))
     THEN /\ Deny("updateDepartment", actor, id, "", "", name)
          /\ UNCHANGED <<departments, memberships, nextId>>
     ELSE IF ~DeptExists(departments, id)
     THEN \* db.department.update throws: record not found
          /\ Atomic("updateDepartment", actor, id, "", "", name, NullRet)
          /\ UNCHANGED <<departments, memberships, nextId>>
     ELSE /\ departments' =
               (departments \ {DeptOf(departments, id)}) \cup {[id |-> id, name |-> name]}
          /\ Atomic("updateDepartment", actor, id, "", "", name, RowRet(TRUE, id, name))
          /\ UNCHANGED <<memberships, nextId>>

\* deleteDepartment on a datastore with no foreign key from a membership to its
\* department: the department row goes, its memberships stay
deleteDepartment_NoForeignKey(actor, id) ==
  /\ CanCall
  /\ IF ~IsGlobalAdmin(actor)
     THEN /\ Deny("deleteDepartment", actor, id, "", "", "")
          /\ UNCHANGED <<departments, memberships, nextId>>
     ELSE IF ~DeptExists(departments, id)
     THEN /\ Atomic("deleteDepartment", actor, id, "", "", "", NullRet)
          /\ UNCHANGED <<departments, memberships, nextId>>
     ELSE /\ departments' = departments \ {DeptOf(departments, id)}
          /\ Atomic("deleteDepartment", actor, id, "", "", "",
                    RowRet(TRUE, id, DeptOf(departments, id).name))
          /\ UNCHANGED <<memberships, nextId>>

\* The relation of a membership to its department is declared outside the
\* service: deleting a department that still has members either removes them
\* with it (Cascade) or is refused by the datastore (Restrict).
deleteDepartment(actor, id) ==
  /\ CanCall
  /\ IF ~IsGlobalAdmin(actor)
     THEN /\ Deny("deleteDepartment", actor, id, "", "", "")
          /\ UNCHANGED <<departments, memberships, nextId>>
     ELSE IF ~DeptExists(departments, id)
     THEN /\ Atomic("deleteDepartment", actor, id, "", "", "", NullRet)
          /\ UNCHANGED <<departments, memberships, nextId>>
     ELSE LET rows == {m \in memberships : m.departmentId = id} IN
          \E onDelete \in {"Cascade", "Restrict"} :
            IF rows # {} /\ onDelete = "Restrict"
            THEN /\ Atomic("deleteDepartment", actor, id, "", "", "", NullRet)
                 /\ UNCHANGED <<departments, memberships, nextId>>
            ELSE /\ rows \cap Locked = {}
                 /\ departments' = departments \ {DeptOf(departments, id)}
                 /\ memberships' = memberships \ rows
                 /\ Atomic("deleteDepartment", actor, id, "", "", "",
                           RowRet(TRUE, id, DeptOf(departments, id).name))
                 /\ UNCHANGED nextId

(***************************************************************************)
(* updateEmployeeRole, removeEmployeeFromDepartmentByRoleId                *)
(***************************************************************************)
updateEmployeeRole(actor, d, e, role) ==
  /\ CanCall
  /\ IF ~HasManagePermission(actor, RoleOf(memberships, actor, d))
     THEN /\ Deny("updateEmployeeRole", actor, d, e, role, "")
          /\ UNCHANGED <<departments, memberships, nextId>>
     ELSE IF RowsOf(memberships, e, d) = {}
     THEN \* db.employeeDepartment.update throws: record not found
          /\ Atomic("updateEmployeeRole", actor, d, e, role, "", NullRet)
          /\ UNCHANGED <<departments, memberships, nextId>>
     ELSE LET rows == RowsOf(memberships, e, d) IN
          /\ rows \cap Locked = {}
          /\ memberships' = (memberships \ rows) \cup {[m EXCEPT !.role = role] : m \in rows}
          /\ Atomic("updateEmployeeRole", actor, d, e, role, "", RowRet(TRUE, d, ""))
          /\ UNCHANGED <<departments, nextId>>

\* the call names no actor: last.userId is ""
removeEmployeeFromDepartmentByRoleId(roleId) ==
  LET rows == {m \in memberships : m.id = roleId} IN
  /\ CanCall
  /\ IF rows = {}
     THEN /\ Atomic("removeEmployeeFromDepartmentByRoleId", "", "", "", "", "", NullRet)
          /\ UNCHANGED <<departments, memberships, nextId>>
     ELSE LET m == CHOOSE x \in rows : TRUE IN
          /\ rows \cap Locked = {}
          /\ memberships' = memberships \ rows
          /\ Atomic("removeEmployeeFromDepartmentByRoleId", "", m.departmentId, m.userId,
                    "", "", RowRet(TRUE, m.departmentId, ""))
          /\ UNCHANGED <<departments, nextId>>

(***************************************************************************)
(* addEmployeeToDepartment: one step per await.                            *)
(***************************************************************************)
\* a call as it starts
Req(op, actor, d, e, role, rate, pos, pc) ==
  [Idle EXCEPT !.pc = pc, !.seq = nops + 1, !.op = op, !.userId = actor,
               !.departmentId = d, !.employeeId = e, !.role = role,
               !.rate = rate, !.position = pos, !.pre = memberships]

\* the call r starts in slot s ("run"), or returns null at once: from the
\* branch of its permission check ("denied") or from a later one ("null")
Start(s, r, outcome) ==
  /\ nops' = nops + 1
  /\ UNCHANGED <<clients, schedVars, clockVars>>
  /\ IF outcome = "run"
     THEN /\ reqs' = [reqs EXCEPT ![s] = r]
          /\ UNCHANGED last
     ELSE /\ last' = [ReturnOf(r, NullRet) EXCEPT !.denied = (outcome = "denied")]
          /\ UNCHANGED reqs

\* the call in slot s returns ret
Return(s, ret) ==
  /\ last' = ReturnOf(reqs[s], ret)
  /\ reqs' = [reqs EXCEPT ![s] = Idle]
  /\ UNCHANGED clients

\* AddBegin that reuses the decision of the actor's previous call on the department
AddBegin_CachedDecision(s, actor, d, e, role, rate, pos) ==
  /\ CanCall /\ s <= clients /\ reqs[s].pc = "idle"
  /\ Start(s, Req("addEmployeeToDepartment", actor, d, e, role, rate, pos, "getDepartment"),
           IF last.seq > 0 /\ last.userId = actor /\ last.departmentId = d
           THEN (IF last.denied THEN "denied" ELSE "run")
           ELSE IF HasManagePermission(actor, RoleOf(memberships, actor, d))
           THEN "run" ELSE "denied")
  /\ UNCHANGED <<departments, memberships, nextId>>

\* the user lookup, the lookup of the actor's role in the department, the check
AddBegin(s, actor, d, e, role, rate, pos) ==
  /\ CanCall /\ s <= clients /\ reqs[s].pc = "idle"
  /\ Start(s, Req("addEmployeeToDepartment", actor, d, e, role, rate, pos, "getDepartment"),
           IF HasManagePermission(actor, RoleOf(memberships, actor, d))
           THEN "run" ELSE "denied")
  /\ UNCHANGED <<departments, memberships, nextId>>

\* this.getDepartmentById(departmentId)
AddGetDepartment(s) ==
  /\ reqs[s].op = "addEmployeeToDepartment" /\ reqs[s].pc = "getDepartment"
  /\ IF DeptExists(departments, reqs[s].departmentId)
     THEN /\ reqs' = [reqs EXCEPT ![s].department = DeptOf(departments, reqs[s].departmentId),
                                  ![s].pc = "findExisting"]
          /\ UNCHANGED <<last, clients>>
     ELSE Return(s, NullRet)
  /\ UNCHANGED <<departments, memberships, nextId, nops, schedVars, clockVars>>

\* employeeExists = db.employeeDepartment.findFirst(...)
AddFindExisting(s) ==
  /\ reqs[s].op = "addEmployeeToDepartment" /\ reqs[s].pc = "findExisting"
  /\ reqs' = [reqs EXCEPT
        ![s].employeeExists = RowsOf(memberships, reqs[s].employeeId, reqs[s].departmentId) # {},
        ![s].pc = "write"]
  /\ UNCHANGED <<departments, memberships, nextId, last, nops, clients, schedVars, clockVars>>

\* CreateRejected without the unique key
CreateRejected_NoUniqueKey(ms, deps, e, d) == ~DeptExists(deps, d)

\* The unique key userId_departmentId and the foreign key to the department:
\* db.employeeDepartment.create throws when the pair has a row already or the
\* department is gone.
CreateRejected(ms, deps, e, d) == RowsOf(ms, e, d) # {} \/ ~DeptExists(deps, d)

\* db.employeeDepartment.update or db.employeeDepartment.create
AddWrite(s) ==
  LET r == reqs[s]
      rows == RowsOf(memberships, r.employeeId, r.departmentId)
  IN
  /\ r.op = "addEmployeeToDepartment" /\ r.pc = "write"
  /\ rows \cap Locked = {}
  /\ IF r.employeeExists
     THEN IF rows = {}
          THEN \* record to update not found: caught, null
               /\ Return(s, NullRet)
               /\ UNCHANGED <<memberships, nextId>>
          ELSE /\ memberships' = (memberships \ rows) \cup
                    {[m EXCEPT !.role = r.role, !.hourlyRate = r.rate,
                               !.position = r.position] : m \in rows}
               /\ reqs' = [reqs EXCEPT ![s].pc = "count"]
               /\ UNCHANGED <<nextId, last, clients>>
     ELSE IF CreateRejected(memberships, departments, r.employeeId, r.departmentId)
          THEN /\ Return(s, NullRet)
               /\ UNCHANGED <<memberships, nextId>>
          ELSE /\ memberships' = memberships \cup
                    {Row(nextId, r.employeeId, r.departmentId, r.role, r.rate, r.position)}
               /\ nextId' = nextId + 1
               /\ reqs' = [reqs EXCEPT ![s].pc = "count"]
               /\ UNCHANGED <<last, clients>>
  /\ UNCHANGED <<departments, nops, schedVars, clockVars>>

\* department.employeeCount = await this.getTotalEmployeeCount(departmentId)
AddCount(s) ==
  /\ reqs[s].op = "addEmployeeToDepartment" /\ reqs[s].pc = "count"
  /\ reqs' = [reqs EXCEPT
        ![s].employeeCount = getTotalEmployeeCount(memberships, reqs[s].departmentId),
        ![s].pc = "cost"]
  /\ UNCHANGED <<departments, memberships, nextId, last, nops, clients, schedVars, clockVars>>

\* department.totalCost = await this.getEmployeeCost(departmentId); return department
AddCost(s) ==
  /\ reqs[s].op = "addEmployeeToDepartment" /\ reqs[s].pc = "cost"
  /\ Return(s, View(reqs[s].department, reqs[s].employeeCount,
                    getEmployeeCost(memberships, reqs[s].departmentId)))
  /\ UNCHANGED <<departments, memberships, nextId, nops, schedVars, clockVars>>

(***************************************************************************)
(* removeEmployeeFromDepartment: db.$transaction.  The statements issued    *)
(* through tx run in the transaction; the deletion is staged (the row is   *)
(* locked) until the callback returns and the transaction commits.  The    *)
(* two rollups are issued through db, outside the transaction: they read   *)
(* the committed table.                                                    *)
(***************************************************************************)
\* RemoveTx without the test of employeeInDepartment
RemoveTx_NoExistenceCheck(s, actor, d, e) ==
  LET rows == RowsOf(memberships, e, d)
      permitted == HasRemovePermission(actor, RoleOf(memberships, actor, d))
      r == Req("removeEmployeeFromDepartment", actor, d, e, "", 0, "", "count")
  IN
  /\ CanCall /\ s <= clients /\ reqs[s].pc = "idle"
  /\ rows \cap Locked = {}
  /\ IF ~permitted
     THEN /\ Start(s, r, "denied")
          /\ UNCHANGED memberships
     ELSE IF DeptExists(departments, d)
     THEN /\ Start(s, [r EXCEPT !.deleted = rows,
                                !.department = DeptOf(departments, d)], "run")
          /\ UNCHANGED memberships
     ELSE /\ Start(s, r, "null")
          /\ memberships' = memberships \ rows
  /\ UNCHANGED <<departments, nextId>>

RemoveTx(s, actor, d, e) ==
  LET rows == RowsOf(memberships, e, d)
      permitted == HasRemovePermission(actor, RoleOf(memberships, actor, d))
      r == Req("removeEmployeeFromDepartment", actor, d, e, "", 0, "", "count")
  IN
  /\ CanCall /\ s <= clients /\ reqs[s].pc = "idle"
  /\ rows \cap Locked = {}
  /\ IF ~permitted
     THEN /\ Start(s, r, "denied")
          /\ UNCHANGED memberships
     ELSE IF rows = {}
     THEN \* employeeInDepartment is null
          /\ Start(s, r, "null")
          /\ UNCHANGED memberships
     ELSE IF DeptExists(departments, d)
     THEN /\ Start(s, [r EXCEPT !.deleted = rows,
                                !.department = DeptOf(departments, d)], "run")
          /\ UNCHANGED memberships
     ELSE \* the callback returns null after the delete: the transaction commits
          /\ Start(s, r, "null")
          /\ memberships' = memberships \ rows
  /\ UNCHANGED <<departments, nextId>>

\* department.employeeCount = await this.getTotalEmployeeCount(departmentId)
RemoveCount(s) ==
  /\ reqs[s].op = "removeEmployeeFromDepartment" /\ reqs[s].pc = "count"
  /\ reqs' = [reqs EXCEPT
        ![s].employeeCount = getTotalEmployeeCount(memberships, reqs[s].departmentId),
        ![s].pc = "cost"]
  /\ UNCHANGED <<departments, memberships, nextId, last, nops, clients, schedVars, clockVars>>

\* department.totalCost = await this.getEmployeeCost(departmentId); the callback
\* returns the department and the transaction commits
RemoveCost(s) ==
  /\ reqs[s].op = "removeEmployeeFromDepartment" /\ reqs[s].pc = "cost"
  /\ memberships' = memberships \ reqs[s].deleted
  /\ Return(s, View(reqs[s].department, reqs[s].employeeCount,
                    getEmployeeCost(memberships, reqs[s].departmentId)))
  /\ UNCHANGED <<departments, nextId, nops, schedVars, clockVars>>

(***************************************************************************)
(* The listings.  The array a listing returns is modelled as the set of    *)
(* its elements; the queries of one listing read one state of the tables.  *)
(***************************************************************************)
\* the department with its employeeCount and totalCost
DepartmentView(ms, dep) ==
  View(dep, getTotalEmployeeCount(ms, dep.id), getEmployeeCost(ms, dep.id))

\* currentRole(): the global role of the signed-in user
currentRole(session) == UserRole[session]

\* a listing returns list
Listing(op, session, userId, list) ==
  /\ CanCall
  /\ nops' = nops + 1
  /\ last' = [Returned(nops + 1, op, userId, "", "", "", 0, "", NullRet, memberships)
                EXCEPT !.session = session, !.list = list]
  /\ UNCHANGED <<departments, memberships, nextId, reqs, clients, schedVars, clockVars>>

AllDepartmentViews == {DepartmentView(memberships, dep) : dep \in departments}

getAllDepartments == Listing("getAllDepartments", "", "", AllDepartmentViews)

\* the departments of every membership of userId, whatever its role
getEmployessByDepartmentIds(session, userId) ==
  Listing("getEmployessByDepartmentIds", session, userId,
    IF currentRole(session) = "ADMIN" THEN AllDepartmentViews
    ELSE {DepartmentView(memberships, dep) :
            dep \in {x \in departments : RowsOf(memberships, userId, x.id) # {}}})

\* the departments in which a membership of userId has role MANAGER or ADMIN
PermittedDepartments(userId) ==
  {x \in departments :
     \E m \in RowsOf(memberships, userId, x.id) : m.role \in {"MANAGER", "ADMIN"}}

getUserPermittedDepartmentsInfo(session, userId) ==
  Listing("getUserPermittedDepartmentsInfo", session, userId,
    IF currentRole(session) = "ADMIN"
    THEN {RowRet(TRUE, dep.id, dep.name) : dep \in departments}
    ELSE {RowRet(TRUE, dep.id, dep.name) : dep \in PermittedDepartments(userId)})

getUserPermittedDepartments(session, userId) ==
  Listing("getUserPermittedDepartments", session, userId,
    IF currentRole(session) = "ADMIN" THEN AllDepartmentViews
    ELSE {DepartmentView(memberships, dep) : dep \in PermittedDepartments(userId)})

(***************************************************************************)
(* The service, called by one client at a time or by several.              *)
(***************************************************************************)
DeptInit ==
  /\ departments = {[id |-> "d1", name |-> "Sales"], [id |-> "d2", name |-> "Ops"]}
  /\ memberships = {Row(1, "bob", "d1", "MANAGER", 20, "cook"),
                    Row(2, "cy", "d1", "MEMBER", 15, "clerk"),
                    Row(3, "cy", "d2", "ADMIN", 15, "cook")}
  /\ nextId = 4
  /\ reqs = [s \in Slots |-> Idle]
  /\ last = NoCall
  /\ nops = 0

RowIds == 0 .. (3 + MaxOps)

AtomicCall ==
  \/ \E actor \in Actors, name \in Names : createDepartment(actor, name)
  \/ \E actor \in Actors, id \in DeptIds, name \in Names : updateDepartment(actor, id, name)
  \/ \E actor \in Actors, id \in DeptIds : deleteDepartment(actor, id)
  \/ \E actor \in Actors, d \in DeptIds, e \in Users, role \in DeptRoles :
       updateEmployeeRole(actor, d, e, role)
  \/ \E roleId \in RowIds : removeEmployeeFromDepartmentByRoleId(roleId)
  \/ getAllDepartments
  \/ \E session \in Users, userId \in Users : getEmployessByDepartmentIds(session, userId)
  \/ \E session \in Users, userId \in Users : getUserPermittedDepartmentsInfo(session, userId)
  \/ \E session \in Users, userId \in Users : getUserPermittedDepartments(session, userId)

StartCall(s) ==
  \/ \E actor \in Actors, d \in DeptIds, e \in Users, g \in Grants :
       AddBegin(s, actor, d, e, g.role, g.rate, g.position)
  \/ \E actor \in Actors, d \in DeptIds, e \in Users : RemoveTx(s, actor, d, e)

StepCall(s) ==
  \/ AddGetDepartment(s)
  \/ AddFindExisting(s)
  \/ AddWrite(s)
  \/ AddCount(s)
  \/ AddCost(s)
  \/ RemoveCount(s)
  \/ RemoveCost(s)

(***************************************************************************)
(* ScheduleView: checkScheduleConflicts.  startTime and endTime are the    *)
(* timestamps new Date(...) yields, in hours since the start of week 0; a  *)
(* shift's id is its row id.                                               *)
(***************************************************************************)
\* schedule.department of the departments a schedule may belong to
SchedDepartments == {[id |-> "d1", name |-> "Sales"], [id |-> "d2", name |-> "Ops"]}

\* the (dayOfWeek, start hour, end hour, week) a shift may have: Monday 09-13,
\* 12-16 and 13-17 and Tuesday 09-13 of week 0, Monday 10-12 of week 1
ShiftTimes ==
  {<<1, 9, 13, 0>>, <<1, 12, 16, 0>>, <<1, 13, 17, 0>>, <<2, 9, 13, 0>>, <<1, 10, 12, 1>>}

\* the timestamp of an hour of a day of a week
Stamp(week, day, hour) == 24 * (7 * week + day) + hour

\* the shift lists of a schedule
ShiftLists ==
  UNION {[1..n -> ShiftTimes] : n \in 0..MaxShifts}

Shift(id, t) ==
  [id |-> id, dayOfWeek |-> t[1], startTime |-> Stamp(t[4], t[1], t[2]),
   endTime |-> Stamp(t[4], t[1], t[3])]

Schedule(i, dep, ts) ==
  [department |-> dep, schedules |-> [k \in 1..Len(ts) |-> Shift(10 * i + k, ts[k])]]

\* hasOverlap with its first disjunct only
hasOverlap_FirstDisjunct(start1, end1, start2, end2) == start1 <= end2 /\ end1 > start2

\* hasOverlap of two same-day shifts
hasOverlap(start1, end1, start2, end2) ==
  \/ (start1 <= end2 /\ end1 > start2)
  \/ (start2 <= end1 /\ end2 > start1)

\* { ...shift, departmentName }
Named(shift, name) ==
  [id |-> shift.id, dayOfWeek |-> shift.dayOfWeek, startTime |-> shift.startTime,
   endTime |-> shift.endTime, departmentName |-> name]

RECURSIVE ForShift2(_, _, _, _)
\* schedule2.schedules.forEach(shift2 => ...), from shift number l on
ForShift2(schedule1, schedule2, shift1, l) ==
  IF l > Len(schedule2.schedules) THEN <<>>
  ELSE LET shift2 == schedule2.schedules[l] IN
       (IF /\ shift1.dayOfWeek = shift2.dayOfWeek
           /\ hasOverlap(shift1.startTime, shift1.endTime, shift2.startTime, shift2.endTime)
        THEN <<[shift1 |-> Named(shift1, schedule1.department.name),
                shift2 |-> Named(shift2, schedule2.department.name)]>>
        ELSE <<>>)
       \o ForShift2(schedule1, schedule2, shift1, l + 1)

RECURSIVE ForShift1_LastFirst(_, _, _)
\* ForShift1 visiting the shifts of schedule1 from the last to the first
ForShift1_LastFirst(schedule1, schedule2, k) ==
  IF k > Len(schedule1.schedules) THEN <<>>
  ELSE ForShift1_LastFirst(schedule1, schedule2, k + 1)
       \o ForShift2(schedule1, schedule2, schedule1.schedules[k], 1)

RECURSIVE ForShift1(_, _, _)
\* schedule1.schedules.forEach(shift1 => ...), from shift number k on
ForShift1(schedule1, schedule2, k) ==
  IF k > Len(schedule1.schedules) THEN <<>>
  ELSE ForShift2(schedule1, schedule2, schedule1.schedules[k], 1)
       \o ForShift1(schedule1, schedule2, k + 1)

RECURSIVE ForSchedule2_NoSkip(_, _, _)
\* ForSchedule2 without the same-department skip
ForSchedule2_NoSkip(scheds, i, j) ==
  IF j > Len(scheds) THEN <<>>
  ELSE ForShift1(scheds[i], scheds[j], 1) \o ForSchedule2_NoSkip(scheds, i, j + 1)

RECURSIVE ForSchedule2(_, _, _)
\* schedules.slice(index + 1).forEach(schedule2 => ...), from schedule number j on
ForSchedule2(scheds, i, j) ==
  IF j > Len(scheds) THEN <<>>
  ELSE (IF scheds[i].department.id = scheds[j].department.id THEN <<>>
        ELSE ForShift1(scheds[i], scheds[j], 1))
       \o ForSchedule2(scheds, i, j + 1)

RECURSIVE ForSchedule1_NoSlice(_, _)
\* ForSchedule1 with the inner loop over all schedules instead of slice(index + 1)
ForSchedule1_NoSlice(scheds, i) ==
  IF i > Len(scheds) THEN <<>>
  ELSE ForSchedule2(scheds, i, 1) \o ForSchedule1_NoSlice(scheds, i + 1)

RECURSIVE ForSchedule1(_, _)
\* schedules.forEach((schedule1, index) => ...), from schedule number i on
ForSchedule1(scheds, i) ==
  IF i > Len(scheds) THEN <<>>
  ELSE ForSchedule2(scheds, i, i + 1) \o ForSchedule1(scheds, i + 1)

\* checkScheduleConflicts with hasConflict: conflicts.length > 1
checkScheduleConflicts_MoreThanOne(scheds) ==
  LET found == ForSchedule1(scheds, 1) IN
  [hasConflict |-> Len(found) > 1, conflicts |-> found]

checkScheduleConflicts(scheds) ==
  LET found == ForSchedule1(scheds, 1) IN
  [hasConflict |-> Len(found) > 0, conflicts |-> found]

\* the fetched schedules: any list the bounds allow
SchedInit ==
  /\ \E n \in 0..MaxSchedules :
       \E deps \in [1..n -> SchedDepartments] :
         \E lists \in [1..n -> ShiftLists] :
           schedules = [i \in 1..n |-> Schedule(i, deps[i], lists[i])]
  /\ hasConflict = FALSE
  /\ conflicts = <<>>
  /\ rendered = FALSE

\* nothing fetched
SchedIdle ==
  /\ schedules = <<>>
  /\ hasConflict = FALSE
  /\ conflicts = <<>>
  /\ rendered = FALSE

\* const { hasConflict, conflicts } = checkScheduleConflicts(schedules)
Render ==
  /\ ~rendered
  /\ rendered' = TRUE
  /\ hasConflict' = checkScheduleConflicts(schedules).hasConflict
  /\ conflicts' = checkScheduleConflicts(schedules).conflicts
  /\ UNCHANGED <<schedules, deptVars, clockVars>>

(***************************************************************************)
(* The clock: the server actions clockIn and clockOut of                   *)
(* @/actions/time-entry, the TimeClock component (handleClockInOut) of     *)
(* each open page and the TimeEntryProvider state behind it.  Times are    *)
(* in seconds, hours in hundredths.                                        *)
(***************************************************************************)
\* a null clockOut or hours
NoTime == -1

NoUser == "nobody"

NoSel == "none"

NoEntry ==
  [id |-> 0, userId |-> "", departmentId |-> "", clockIn |-> 0,
   clockOut |-> NoTime, hours |-> NoTime]

Entry(id, u, d, cin, cout, hours) ==
  [id |-> id, userId |-> u, departmentId |-> d, clockIn |-> cin,
   clockOut |-> cout, hours |-> hours]

\* the open pages: TimeClock components, each under its own TimeEntryProvider
Sessions == {1, 2}

\* the user and the selected department of the second page
SessionConfigs ==
  {<<"bob", "d1">>, <<"cy", "d1">>, <<NoUser, "d1">>, <<"bob", NoSel>>}

\* seconds that pass between two events
TickDeltas == {54, 30600}

\* a { data?, error?, success? } result of a server action
Response(error, success, data) == [error |-> error, success |-> success, data |-> data]

\* response.error is undefined
NoError == ""

NoResponse == Response(NoError, FALSE, NoEntry)

OpenEntries(entries, u) == {e \in entries : e.userId = u /\ e.clockOut = NoTime}

\* hours of the server: the elapsed time in hours, rounded to 2 decimal places
ServerHours(secs) == (secs * 100 + 1800) \div 3600

\* elapsed times of this model (sums of TickDeltas) whose quotient by 3600, as
\* a double, lies below the decimal tie it stands for
TiesDown == {54, 162, 30762}

\* ((clockOutTime - clockInTime) / (1000 * 60 * 60)).toFixed(2), in hundredths
toFixed2(secs) ==
  IF secs % 36 = 18 /\ secs \in TiesDown THEN secs \div 36 ELSE (secs + 18) \div 36

\* TimeEntryProvider.addEntry, with the recentEntries of the render it closes over
addEntry(entry, closedOver) == <<entry>> \o closedOver

\* TimeEntryProvider.clockOut: the completed entry
completedEntry(current, clockOutTime) ==
  [current EXCEPT !.clockOut = clockOutTime,
                  !.hours = toFixed2(clockOutTime - current.clockIn)]

\* replaceEntry that keeps the completed entry only
replaceEntry_OnlyCompleted(prev, timeEntryId, completed) == <<completed>>

\* prev.map(entry => entry.id === timeEntryId ? completedEntry : entry)
replaceEntry(prev, timeEntryId, completed) ==
  [i \in 1..Len(prev) |-> IF prev[i].id = timeEntryId THEN completed ELSE prev[i]]

\* a handleClockInOut invocation waiting for its server action; current and
\* recent are the currentEntry and recentEntries of the render whose handler
\* was invoked (the values clockOut and addEntry close over)
ClockRequest(rid, s, kind, u, arg) ==
  [rid |-> rid, sid |-> s, kind |-> kind, userId |-> u, arg |-> arg,
   current |-> currentEntry[s], recent |-> recentEntries[s],
   answered |-> FALSE, response |-> NoResponse]

\* handleClockInOut up to its await: the button of page s is pressed
HandleClockInOutSend(s) ==
  /\ npress < MaxPresses
  /\ npress' = npress + 1
  /\ IF currentEntry[s] # NoEntry
     THEN IF sessUser[s] = NoUser
          THEN UNCHANGED requests
          ELSE requests' = requests \cup
                 {ClockRequest(npress + 1, s, "clockOut", sessUser[s], currentEntry[s].id)}
     ELSE IF selectedDepartment[s] = NoSel \/ sessUser[s] = NoUser
          THEN UNCHANGED requests
          ELSE requests' = requests \cup
                 {ClockRequest(npress + 1, s, "clockIn", sessUser[s], selectedDepartment[s])}
  /\ UNCHANGED <<timeEntries, nextEntryId, now, nticks, currentEntry, recentEntries,
                 toasts, sessUser, selectedDepartment, pageDepartments, time, deptVars, schedVars>>

\* the server answers r
Answer(r, resp) == requests' = (requests \ {r}) \cup {[r EXCEPT !.answered = TRUE, !.response = resp]}

\* clockIn without the check for an open entry
ServerClockIn_NoCheck(r) ==
  /\ r.kind = "clockIn" /\ ~r.answered
  /\ LET e == Entry(nextEntryId, r.userId, r.arg, now, NoTime, NoTime) IN
     /\ timeEntries' = timeEntries \cup {e}
     /\ nextEntryId' = nextEntryId + 1
     /\ Answer(r, Response(NoError, TRUE, e))
  /\ UNCHANGED <<now, nticks, npress, currentEntry, recentEntries, toasts, sessUser,
                 selectedDepartment, pageDepartments, time, deptVars, schedVars>>

\* clockIn(userId, departmentId) of the server: an atomic check and insert
ServerClockIn(r) ==
  /\ r.kind = "clockIn" /\ ~r.answered
  /\ IF OpenEntries(timeEntries, r.userId) # {}
     THEN /\ Answer(r, Response("Conflict", FALSE, NoEntry))
          /\ UNCHANGED <<timeEntries, nextEntryId>>
     ELSE LET e == Entry(nextEntryId, r.userId, r.arg, now, NoTime, NoTime) IN
          /\ timeEntries' = timeEntries \cup {e}
          /\ nextEntryId' = nextEntryId + 1
          /\ Answer(r, Response(NoError, TRUE, e))
  /\ UNCHANGED <<now, nticks, npress, currentEntry, recentEntries, toasts, sessUser,
                 selectedDepartment, pageDepartments, time, deptVars, schedVars>>

\* clockOut that closes the entry with the id, open or not, of any user
ServerClockOut_AnyEntry(r) ==
  /\ r.kind = "clockOut" /\ ~r.answered
  /\ LET found == {e \in timeEntries : e.id = r.arg} IN
     IF found = {}
     THEN /\ Answer(r, Response("NotFound", FALSE, NoEntry))
          /\ UNCHANGED timeEntries
     ELSE LET e == CHOOSE x \in found : TRUE
              closed == [e EXCEPT !.clockOut = now, !.hours = ServerHours(now - e.clockIn)]
          IN /\ timeEntries' = (timeEntries \ {e}) \cup {closed}
             /\ Answer(r, Response(NoError, TRUE, closed))
  /\ UNCHANGED <<nextEntryId, now, nticks, npress, currentEntry, recentEntries, toasts,
                 sessUser, selectedDepartment, pageDepartments, time, deptVars, schedVars>>

\* clockOut(userId, timeEntryId) of the server
ServerClockOut(r) ==
  /\ r.kind = "clockOut" /\ ~r.answered
  /\ LET open == {e \in OpenEntries(timeEntries, r.userId) : e.id = r.arg} IN
     IF open = {}
     THEN /\ Answer(r, Response("NotFound", FALSE, NoEntry))
          /\ UNCHANGED timeEntries
     ELSE LET e == CHOOSE x \in open : TRUE
              closed == [e EXCEPT !.clockOut = now, !.hours = ServerHours(now - e.clockIn)]
          IN /\ timeEntries' = (timeEntries \ {e}) \cup {closed}
             /\ Answer(r, Response(NoError, TRUE, closed))
  /\ UNCHANGED <<nextEntryId, now, nticks, npress, currentEntry, recentEntries, toasts,
                 sessUser, selectedDepartment, pageDepartments, time, deptVars, schedVars>>

\* toast({ title: ... })
Toast(s, title) == toasts' = [toasts EXCEPT ![s] = Append(@, title)]

\* formatDuration with the minutes not reduced modulo the hour
formatDuration_MinutesNotReduced(d) == <<d \div 3600, d \div 60, d % 60>>

\* formatDuration(startTime), for d = differenceInSeconds(now, startTime): the
\* numbers of the string HH:MM:SS
formatDuration(d) == <<d \div 3600, (d % 3600) \div 60, d % 60>>

\* '00:00:00'
ZeroTime == <<0, 0, 0>>

\* the effect on [currentEntry] after a render with a new currentEntry: with
\* an entry it starts the interval, without one it calls setTime('00:00:00')
EffectOnCurrentEntry(s, entry) ==
  IF entry = NoEntry THEN [time EXCEPT ![s] = ZeroTime] ELSE time

\* the interval of page s fires: setTime(formatDuration(new Date(currentEntry.clockIn)))
TimerTick(s) ==
  /\ currentEntry[s] # NoEntry
  /\ time' = [time EXCEPT ![s] = formatDuration(now - currentEntry[s].clockIn)]
  /\ UNCHANGED <<timeEntries, nextEntryId, now, nticks, npress, requests, currentEntry,
                 recentEntries, toasts, sessUser, selectedDepartment, pageDepartments,
                 deptVars, schedVars>>

\* HandleClockInOutResume that looks at data and success before error
HandleClockInOutResume_DataFirst(r) ==
  LET s == r.sid IN
  /\ r.answered
  /\ requests' = requests \ {r}
  /\ IF r.response.data # NoEntry /\ r.response.success
     THEN /\ Toast(s, "Success")
          /\ IF r.kind = "clockOut"
             THEN IF r.current # NoEntry
                  THEN /\ recentEntries' = [recentEntries EXCEPT ![s] =
                            replaceEntry(@, r.current.id, completedEntry(r.current, now))]
                       /\ currentEntry' = [currentEntry EXCEPT ![s] = NoEntry]
                  ELSE UNCHANGED <<currentEntry, recentEntries>>
             ELSE /\ currentEntry' = [currentEntry EXCEPT ![s] = r.response.data]
                  /\ recentEntries' = [recentEntries EXCEPT ![s] =
                       addEntry(r.response.data, r.recent)]
     ELSE IF r.response.error # NoError
     THEN /\ Toast(s, "Error")
          /\ UNCHANGED <<currentEntry, recentEntries>>
     ELSE UNCHANGED <<toasts, currentEntry, recentEntries>>
  /\ time' = EffectOnCurrentEntry(s, currentEntry'[s])
  /\ UNCHANGED <<timeEntries, nextEntryId, now, nticks, npress, sessUser,
                 selectedDepartment, pageDepartments, deptVars, schedVars>>

\* handleClockInOut after its await, with the calls into TimeEntryProvider
HandleClockInOutResume(r) ==
  LET s == r.sid IN
  /\ r.answered
  /\ requests' = requests \ {r}
  /\ IF r.response.error # NoError
     THEN /\ Toast(s, "Error")
          /\ UNCHANGED <<currentEntry, recentEntries>>
     ELSE IF r.response.data # NoEntry /\ r.response.success
     THEN /\ Toast(s, "Success")
          /\ IF r.kind = "clockOut"
             THEN \* clockOut(currentEntry.id)
                  IF r.current # NoEntry
                  THEN /\ recentEntries' = [recentEntries EXCEPT ![s] =
                            replaceEntry(@, r.current.id, completedEntry(r.current, now))]
                       /\ currentEntry' = [currentEntry EXCEPT ![s] = NoEntry]
                  ELSE UNCHANGED <<currentEntry, recentEntries>>
             ELSE \* clockIn(response.data)
                  /\ currentEntry' = [currentEntry EXCEPT ![s] = r.response.data]
                  /\ recentEntries' = [recentEntries EXCEPT ![s] =
                       addEntry(r.response.data, r.recent)]
     ELSE UNCHANGED <<toasts, currentEntry, recentEntries>>
  /\ time' = EffectOnCurrentEntry(s, currentEntry'[s])
  /\ UNCHANGED <<timeEntries, nextEntryId, now, nticks, npress, sessUser,
                 selectedDepartment, pageDepartments, deptVars, schedVars>>

\* time passes
Tick(delta) ==
  /\ nticks < MaxTicks
  /\ nticks' = nticks + 1
  /\ now' = now + delta
  /\ UNCHANGED <<timeEntries, nextEntryId, npress, requests, currentEntry, recentEntries,
                 toasts, sessUser, selectedDepartment, pageDepartments, time, deptVars, schedVars>>

\* the entry bob closed before the pages were opened
OldEntry == Entry(1, "bob", "d1", 0, 30600, 850)

\* two pages are open: bob's, and one of SessionConfigs; the provider props
\* are the user's entries on the server
ClockInit ==
  /\ timeEntries = {OldEntry}
  /\ nextEntryId = 2
  /\ now = 30600
  /\ nticks = 0
  /\ npress = 0
  /\ requests = {}
  /\ \E c \in SessionConfigs :
       /\ sessUser = [s \in Sessions |-> IF s = 1 THEN "bob" ELSE c[1]]
       /\ selectedDepartment = [s \in Sessions |-> IF s = 1 THEN "d1" ELSE c[2]]
  /\ currentEntry = [s \in Sessions |-> NoEntry]
  /\ recentEntries = [s \in Sessions |-> IF sessUser[s] = "bob" THEN <<OldEntry>> ELSE <<>>]
  /\ toasts = [s \in Sessions |-> <<>>]
  /\ pageDepartments = [s \in Sessions |-> {"d1", "d2"}]
  /\ time = [s \in Sessions |-> ZeroTime]

\* no page is open
ClockIdle ==
  /\ timeEntries = {}
  /\ nextEntryId = 1
  /\ now = 0
  /\ nticks = 0
  /\ npress = 0
  /\ requests = {}
  /\ sessUser = [s \in Sessions |-> NoUser]
  /\ selectedDepartment = [s \in Sessions |-> NoSel]
  /\ currentEntry = [s \in Sessions |-> NoEntry]
  /\ recentEntries = [s \in Sessions |-> <<>>]
  /\ toasts = [s \in Sessions |-> <<>>]
  /\ pageDepartments = [s \in Sessions |-> {}]
  /\ time = [s \in Sessions |-> ZeroTime]

(***************************************************************************)
(* The handlers as functions of the result they are handed: the server     *)
(* action answers with any value of its result type.                       *)
(***************************************************************************)
\* the results a clock action may hand back: error set or not, success set or
\* not, data present or not
ClockResults(r) ==
  {Response(error, success, data) :
     error \in {NoError, "Conflict"}, success \in BOOLEAN,
     data \in {NoEntry, Entry(nextEntryId, r.userId, "d1", now, NoTime, NoTime)}}

\* _clockIn or _clockOut resolves with resp
ServerResult(r, resp) ==
  /\ ~r.answered
  /\ Answer(r, resp)
  /\ nextEntryId' = IF resp.data = NoEntry THEN nextEntryId ELSE nextEntryId + 1
  /\ UNCHANGED <<timeEntries, now, nticks, npress, currentEntry, recentEntries, toasts,
                 sessUser, selectedDepartment, pageDepartments, time, deptVars, schedVars>>

\* what await deleteDepartment(user.id, id) yields: a message, or a throw
RemoveMessages ==
  {[thrown |-> FALSE, error |-> "Permission denied", success |-> ""],
   [thrown |-> FALSE, error |-> "", success |-> "Department deleted"],
   [thrown |-> FALSE, error |-> "", success |-> ""],
   [thrown |-> TRUE, error |-> "", success |-> ""]}

\* handleRemoveDepartment(id) of DepartmentManagement, given the message
handleRemoveDepartment(s, id, message) ==
  /\ npress < MaxPresses
  /\ npress' = npress + 1
  /\ IF sessUser[s] = NoUser
     THEN Toast(s, "Error") /\ UNCHANGED pageDepartments
     ELSE IF message.thrown
     THEN Toast(s, "Error") /\ UNCHANGED pageDepartments
     ELSE IF message.error # ""
     THEN Toast(s, "Error") /\ UNCHANGED pageDepartments
     ELSE /\ pageDepartments' = [pageDepartments EXCEPT ![s] = @ \ {id}]
          /\ Toast(s, "Success")
  /\ UNCHANGED <<timeEntries, nextEntryId, now, nticks, requests, currentEntry,
                 recentEntries, sessUser, selectedDepartment, time, deptVars, schedVars>>

(***************************************************************************)
(* Specifications.                                                         *)
(***************************************************************************)
\* the department service
Next ==
  \/ AtomicCall
  \/ \E s \in Slots : StartCall(s)
  \/ \E s \in Slots : StepCall(s)

\* one client: a call returns before the next one starts
Init == DeptInit /\ clients = 1 /\ SchedIdle /\ ClockIdle

\* two clients: their calls interleave at the awaits
InitConc == DeptInit /\ clients = 2 /\ SchedIdle /\ ClockIdle

Spec == Init /\ [][Next]_vars

SpecConc == InitConc /\ [][Next]_vars

\* ScheduleView renders the schedules it fetched
NextSched == Render

InitSched == DeptInit /\ clients = 1 /\ SchedInit /\ ClockIdle

SpecSched == InitSched /\ [][NextSched]_vars

\* the clock: the pages, the server actions, time
NextClock ==
  \/ \E s \in Sessions : HandleClockInOutSend(s)
  \/ \E r \in requests : ServerClockIn(r)
  \/ \E r \in requests : ServerClockOut(r)
  \/ \E r \in requests : HandleClockInOutResume(r)
  \/ \E delta \in TickDeltas : Tick(delta)
  \/ \E s \in Sessions : TimerTick(s)

InitClock == DeptInit /\ clients = 1 /\ SchedIdle /\ ClockInit

SpecClock == InitClock /\ [][NextClock]_vars

\* the pages, with the server actions taken as any result
NextUI ==
  \/ \E s \in Sessions : HandleClockInOutSend(s)
  \/ \E r \in requests : \E resp \in ClockResults(r) : ServerResult(r, resp)
  \/ \E r \in requests : HandleClockInOutResume(r)
  \/ \E s \in Sessions, id \in DeptIds, message \in RemoveMessages :
       handleRemoveDepartment(s, id, message)

SpecUI == InitClock /\ [][NextUI]_vars

(***************************************************************************)
(* Properties of the department service.                                   *)
(***************************************************************************)
\* a call returns in this step; last' is that call and its result
Returns == last'.seq # last.seq

\* the store is left as it was
StoreUnchanged == departments' = departments /\ memberships' = memberships

GlobalRoleAdmin(a) == a \in Users /\ UserRole[a] = "ADMIN"

HoldsRole(ms, a, d, role) ==
  \E m \in ms : m.userId = a /\ m.departmentId = d /\ m.role = role

MembersOf(ms, d) == {m \in ms : m.departmentId = d}

HasRow(ms, u, d) == \E m \in ms : m.userId = u /\ m.departmentId = d

ManageOps == {"updateDepartment", "addEmployeeToDepartment", "updateEmployeeRole"}

\* C5: createDepartment and deleteDepartment called by an actor whose global
\* role is not ADMIN (an unknown actor, a regular user, a holder of MANAGER or
\* ADMIN within a department) return null and leave departments and
\* memberships unchanged.
C5_CreateDeleteAdminOnly ==
  [][(/\ Returns
      /\ last'.op \in {"createDepartment", "deleteDepartment"}
      /\ ~GlobalRoleAdmin(last'.userId))
     => (~last'.ret.ok /\ StoreUnchanged)]_vars

\* bob, MANAGER of d1, was refused the deletion of d1
C5_Witness ==
  /\ last.op = "deleteDepartment" /\ last.userId = "bob" /\ last.departmentId = "d1"
  /\ HoldsRole(last.pre, "bob", "d1", "MANAGER")
  /\ ~last.ret.ok

\* C6: for an actor who is not global ADMIN, updateDepartment,
\* addEmployeeToDepartment and updateEmployeeRole on department D go through
\* only if the actor's own membership in D has role MANAGER, and
\* removeEmployeeFromDepartment only if it has role MANAGER or ADMIN; otherwise
\* the call returns null and the store is as it was when the call started.
C6_DepartmentScopedPermission ==
  [][(/\ Returns
      /\ ~GlobalRoleAdmin(last'.userId)
      /\ \/ /\ last'.op \in ManageOps
            /\ ~HoldsRole(last'.pre, last'.userId, last'.departmentId, "MANAGER")
         \/ /\ last'.op = "removeEmployeeFromDepartment"
            /\ ~HoldsRole(last'.pre, last'.userId, last'.departmentId, "MANAGER")
            /\ ~HoldsRole(last'.pre, last'.userId, last'.departmentId, "ADMIN"))
     => (~last'.ret.ok /\ StoreUnchanged /\ memberships' = last'.pre)]_vars

\* bob, MANAGER of d1 only, was refused an addEmployeeToDepartment on d2
C6_Witness ==
  /\ last.op = "addEmployeeToDepartment" /\ last.userId = "bob" /\ last.departmentId = "d2"
  /\ HoldsRole(last.pre, "bob", "d1", "MANAGER")
  /\ ~HasRow(last.pre, "bob", "d2")
  /\ ~last.ret.ok

\* C7: a membership row disappears only in a step of a call made by an
\* identified actor who, when the call started, was global ADMIN, or MANAGER or
\* ADMIN in that row's department.
C7_DeletionByPermittedActor ==
  [][\A m \in memberships :
       (m.id \notin {x.id : x \in memberships'})
       => /\ Returns
          /\ \/ GlobalRoleAdmin(last'.userId)
             \/ HoldsRole(last'.pre, last'.userId, m.departmentId, "MANAGER")
             \/ HoldsRole(last'.pre, last'.userId, m.departmentId, "ADMIN")]_vars

\* C8: there is at most one membership row per (userId, departmentId).
C8_OneMembershipPerPair ==
  \A u \in Users, d \in DeptIds :
    Cardinality({m \in memberships : m.userId = u /\ m.departmentId = d}) <= 1

\* two calls for the same new pair both found no row; one has created it and
\* the other is about to write
C8_Witness ==
  /\ reqs[1].op = "addEmployeeToDepartment" /\ reqs[1].pc = "count"
  /\ reqs[2].op = "addEmployeeToDepartment" /\ reqs[2].pc = "write"
  /\ reqs[1].employeeId = reqs[2].employeeId
  /\ reqs[1].departmentId = reqs[2].departmentId
  /\ ~reqs[1].employeeExists /\ ~reqs[2].employeeExists

\* C9: a permitted addEmployeeToDepartment never fails because the pair has
\* a membership: when it returns and the pair has a row (and the department
\* exists), it has succeeded, also when two calls for the same new pair run
\* concurrently.
C9_DuplicateIsNeverAnError ==
  [][(/\ Returns
      /\ last'.op = "addEmployeeToDepartment"
      /\ \/ GlobalRoleAdmin(last'.userId)
         \/ HoldsRole(last'.pre, last'.userId, last'.departmentId, "MANAGER")
      /\ \E x \in departments' : x.id = last'.departmentId
      /\ HasRow(memberships', last'.employeeId, last'.departmentId))
     => last'.ret.ok]_vars

\* C10: the employeeCount a successful addEmployeeToDepartment returns is the
\* department's membership count when the call started, plus 1 when the pair
\* had no membership then; the counts of the other departments are unchanged.
C10_EmployeeCountAfterAdd ==
  [][(Returns /\ last'.op = "addEmployeeToDepartment" /\ last'.ret.ok)
     => /\ last'.ret.employeeCount =
             Cardinality(MembersOf(last'.pre, last'.departmentId))
             + (IF HasRow(last'.pre, last'.employeeId, last'.departmentId) THEN 0 ELSE 1)
        /\ \A d \in DeptIds \ {last'.departmentId} :
             Cardinality(MembersOf(memberships', d)) = Cardinality(MembersOf(last'.pre, d))]_vars

\* ann added to d1, which had two members: the call returned 3
C10_Witness ==
  /\ last.op = "addEmployeeToDepartment" /\ last.ret.ok
  /\ last.departmentId = "d1" /\ last.employeeId = "ann"
  /\ ~HasRow(last.pre, "ann", "d1")
  /\ Cardinality(MembersOf(last.pre, "d1")) = 2
  /\ last.ret.employeeCount = 3

\* the hourly rate of u in d, 0 without a membership
RateOfUser(ms, u, d) ==
  IF RowsOf(ms, u, d) = {} THEN 0 ELSE (CHOOSE m \in RowsOf(ms, u, d) : TRUE).hourlyRate

\* the exact sum of the hourly rates of the members of d
ExactCost(ms, d) == RateOfUser(ms, "ann", d) + RateOfUser(ms, "bob", d) + RateOfUser(ms, "cy", d)

C12_RemoveViewReflectsDeletion ==
  [][(Returns /\ last'.op = "removeEmployeeFromDepartment" /\ last'.ret.ok)
     => /\ ~HasRow(memberships', last'.employeeId, last'.departmentId)
        /\ last'.ret.employeeCount =
             Cardinality(MembersOf(memberships', last'.departmentId))
        /\ last'.ret.totalCost = ExactCost(memberships', last'.departmentId)]_vars

\* removeEmployeeFromDepartment was let through by its permission check
RemovePermitted(ms, actor, d) ==
  \/ GlobalRoleAdmin(actor)
  \/ actor \in Users /\ (HoldsRole(ms, actor, d, "MANAGER") \/ HoldsRole(ms, actor, d, "ADMIN"))

\* C13: removeEmployeeFromDepartment by a permitted actor for a pair with no
\* membership returns null, not from the permission check, and leaves every
\* membership and every department unchanged.
C13_RemoveAbsentMembership ==
  [][(/\ Returns
      /\ last'.op = "removeEmployeeFromDepartment"
      /\ RemovePermitted(last'.pre, last'.userId, last'.departmentId)
      /\ ~HasRow(last'.pre, last'.employeeId, last'.departmentId))
     => (~last'.ret.ok /\ ~last'.denied /\ StoreUnchanged /\ memberships' = last'.pre)]_vars

\* bob, MANAGER of d1, asked to remove ann, who is not in d1
C13_Witness ==
  /\ last.op = "removeEmployeeFromDepartment"
  /\ last.userId = "bob" /\ last.departmentId = "d1" /\ last.employeeId = "ann"
  /\ HoldsRole(last.pre, "bob", "d1", "MANAGER")
  /\ ~HasRow(last.pre, "ann", "d1")
  /\ ~last.ret.ok /\ ~last.denied

\* C16: getUserPermittedDepartments and getUserPermittedDepartmentsInfo for
\* a userId whose global role is not ADMIN return exactly the departments in
\* which that user is MANAGER or ADMIN, and for a userId whose global role is
\* ADMIN all departments: the role that decides is that of the userId passed.
C16_PermittedDepartmentsOfUserId ==
  [][(/\ Returns
      /\ last'.op \in {"getUserPermittedDepartments", "getUserPermittedDepartmentsInfo"})
     => {v.id : v \in last'.list} =
          IF GlobalRoleAdmin(last'.userId)
          THEN {x.id : x \in departments'}
          ELSE {x.id : x \in {y \in departments' :
                  \/ HoldsRole(memberships', last'.userId, y.id, "MANAGER")
                  \/ HoldsRole(memberships', last'.userId, y.id, "ADMIN")}}]_vars

\* the operations that start with a permission check
CheckedOps ==
  {"createDepartment", "updateDepartment", "deleteDepartment",
   "addEmployeeToDepartment", "removeEmployeeFromDepartment", "updateEmployeeRole"}

\* C18: no call of a department operation by an actor whose global role is
\* ADMIN returns from the branch of the permission check.
C18_GlobalAdminNeverDenied ==
  [][(Returns /\ last'.op \in CheckedOps /\ GlobalRoleAdmin(last'.userId))
     => ~last'.denied]_vars

\* ann, global ADMIN with no membership in d1, removed cy from d1
C18_Witness ==
  /\ last.op = "removeEmployeeFromDepartment" /\ last.userId = "ann"
  /\ last.departmentId = "d1" /\ last.employeeId = "cy"
  /\ ~HasRow(last.pre, "ann", "d1")
  /\ last.ret.ok /\ ~last.denied
  /\ ~HasRow(memberships, "cy", "d1")

\* C19: every stored membership has hourlyRate >= 0.
C19_RateNonNegative == \A m \in memberships : m.hourlyRate >= 0

\* the permission the roles of table ms give the actor for op on d
PermittedBy(ms, op, actor, d) ==
  /\ actor \in Users
  /\ \/ GlobalRoleAdmin(actor)
     \/ HoldsRole(ms, actor, d, "MANAGER")
     \/ op = "removeEmployeeFromDepartment" /\ HoldsRole(ms, actor, d, "ADMIN")

\* C20: updateDepartment, addEmployeeToDepartment, updateEmployeeRole and
\* removeEmployeeFromDepartment are denied exactly when the roles stored when
\* the call starts do not permit the actor, whatever an earlier call decided.
C20_DecidedFromStoredRoles ==
  [][(Returns /\ last'.op \in ManageOps \cup {"removeEmployeeFromDepartment"})
     => (last'.denied <=>
           ~PermittedBy(last'.pre, last'.op, last'.userId, last'.departmentId))]_vars

\* bob was MANAGER of d1; the first call took the role away, and bob's call
\* on d1 that followed was denied
C20_Witness ==
  /\ last.seq = 2 /\ last.op \in ManageOps
  /\ last.userId = "bob" /\ last.departmentId = "d1"
  /\ ~HoldsRole(last.pre, "bob", "d1", "MANAGER")
  /\ last.denied

StrictOverlap(a, b) == a.startTime < b.endTime /\ b.startTime < a.endTime

\* one shift ends exactly when the other starts
Touching(a, b) == a.endTime = b.startTime \/ b.endTime = a.startTime

\* number of the schedule that holds the shift with this id
ScheduleOf(id) ==
  CHOOSE i \in 1..Len(schedules) :
    \E k \in 1..Len(schedules[i].schedules) : schedules[i].schedules[k].id = id

\* the entries of conflicts that pair shifts a and b, in either order
ReportsOf(a, b) ==
  {n \in 1..Len(conflicts) : {conflicts[n].shift1.id, conflicts[n].shift2.id} = {a.id, b.id}}

\* C2: no reported pair only touches (one shift ending exactly when the other
\* starts, with no other intersection).
C2_TouchingNotReported ==
  rendered =>
    \A n \in 1..Len(conflicts) :
      ~(/\ Touching(conflicts[n].shift1, conflicts[n].shift2)
        /\ ~StrictOverlap(conflicts[n].shift1, conflicts[n].shift2))

\* C3: every pair of shifts of schedules of different departments, on the
\* same dayOfWeek and with start1 < end2 and start2 < end1, is in conflicts
\* exactly once.
C3_OverlapReportedOnce ==
  rendered =>
    \A i \in 1..Len(schedules), j \in 1..Len(schedules) :
      (i < j /\ schedules[i].department.id # schedules[j].department.id) =>
        \A k \in 1..Len(schedules[i].schedules), l \in 1..Len(schedules[j].schedules) :
          LET a == schedules[i].schedules[k]
              b == schedules[j].schedules[l]
          IN (a.dayOfWeek = b.dayOfWeek /\ StrictOverlap(a, b))
             => Cardinality(ReportsOf(a, b)) = 1

\* three schedules, the first and the last of different departments, and the
\* Monday 12-16 shift of the last overlaps the Monday 09-13 shift of the first
C3_Witness ==
  /\ rendered
  /\ Len(schedules) = 3
  /\ schedules[1].department.id # schedules[3].department.id
  /\ \E n \in 1..Len(conflicts) :
       /\ conflicts[n].shift1.id = 11 /\ conflicts[n].shift1.startTime = Stamp(0, 1, 9)
       /\ conflicts[n].shift2.id = 32 /\ conflicts[n].shift2.startTime = Stamp(0, 1, 12)
       /\ conflicts[n].shift1.dayOfWeek = conflicts[n].shift2.dayOfWeek

\* C4: no reported pair has both shifts in schedules of one department, and
\* no reported pair has shifts of different dayOfWeek.
C4_NeverSameDepartment ==
  rendered =>
    \A n \in 1..Len(conflicts) :
      /\ schedules[ScheduleOf(conflicts[n].shift1.id)].department.id
           # schedules[ScheduleOf(conflicts[n].shift2.id)].department.id
      /\ conflicts[n].shift1.dayOfWeek = conflicts[n].shift2.dayOfWeek

\* two schedules of d1 with overlapping shifts, a third of d2, and a conflict
C4_Witness ==
  /\ rendered
  /\ Len(schedules) = 3
  /\ schedules[1].department.id = "d1" /\ schedules[2].department.id = "d1"
  /\ schedules[3].department.id = "d2"
  /\ Len(schedules[1].schedules) > 0 /\ Len(schedules[2].schedules) > 0
  /\ schedules[1].schedules[1].dayOfWeek = schedules[2].schedules[1].dayOfWeek
  /\ StrictOverlap(schedules[1].schedules[1], schedules[2].schedules[1])
  /\ Len(conflicts) > 0

\* the time of day of a timestamp
TimeOfDay(t) == t % 24

\* the times of day of a and b overlap
TimeOfDayOverlap(a, b) ==
  /\ TimeOfDay(a.startTime) < TimeOfDay(b.endTime)
  /\ TimeOfDay(b.startTime) < TimeOfDay(a.endTime)

\* C21: two shifts of schedules of different departments with equal
\* dayOfWeek and overlapping times of day are reported, whatever the calendar
\* dates their timestamps carry.
C21_TimeOfDayOnly ==
  rendered =>
    \A i \in 1..Len(schedules), j \in 1..Len(schedules) :
      (i < j /\ schedules[i].department.id # schedules[j].department.id) =>
        \A k \in 1..Len(schedules[i].schedules), l \in 1..Len(schedules[j].schedules) :
          LET a == schedules[i].schedules[k]
              b == schedules[j].schedules[l]
          IN (a.dayOfWeek = b.dayOfWeek /\ TimeOfDayOverlap(a, b)) => ReportsOf(a, b) # {}

\* the position of the shift with this id in its schedule
ShiftIndexOf(id) ==
  CHOOSE k \in 1..Len(schedules[ScheduleOf(id)].schedules) :
    schedules[ScheduleOf(id)].schedules[k].id = id

\* (index of schedule1, index of schedule2, index of shift1, index of shift2)
DiscoveryKey(c) ==
  <<ScheduleOf(c.shift1.id), ScheduleOf(c.shift2.id),
    ShiftIndexOf(c.shift1.id), ShiftIndexOf(c.shift2.id)>>

\* lexicographic order of keys
KeyBefore(x, y) ==
  \E p \in 1..4 : x[p] < y[p] /\ \A q \in 1..(p - 1) : x[q] = y[q]

\* C22: conflicts is in discovery order: strictly increasing in (index of the
\* first schedule, index of the second schedule, index of shift1, index of
\* shift2); shift1 is of the earlier schedule, and each departmentName is the
\* name of the department of the shift's own schedule.
C22_DiscoveryOrder ==
  rendered =>
    /\ \A n \in 1..Len(conflicts) :
         /\ ScheduleOf(conflicts[n].shift1.id) < ScheduleOf(conflicts[n].shift2.id)
         /\ conflicts[n].shift1.departmentName =
              schedules[ScheduleOf(conflicts[n].shift1.id)].department.name
         /\ conflicts[n].shift2.departmentName =
              schedules[ScheduleOf(conflicts[n].shift2.id)].department.name
    /\ \A n \in 1..(Len(conflicts) - 1) :
         KeyBefore(DiscoveryKey(conflicts[n]), DiscoveryKey(conflicts[n + 1]))
    /\ conflicts = checkScheduleConflicts(schedules).conflicts

\* both shifts of the first schedule conflict with the shift of the second
C22_Witness ==
  /\ rendered
  /\ Len(schedules) = 2
  /\ Len(conflicts) = 2
  /\ conflicts[1].shift1.id = 11 /\ conflicts[2].shift1.id = 12
  /\ conflicts[1].shift2.id = 21 /\ conflicts[2].shift2.id = 21
  /\ conflicts[1].shift1.departmentName # conflicts[1].shift2.departmentName

\* the unordered pairs of shift ids in a list of conflicts
PairsOf(found) == {{found[n].shift1.id, found[n].shift2.id} : n \in 1..Len(found)}

\* the list scheds in the order perm
Permuted(scheds, perm) == [i \in 1..Len(scheds) |-> scheds[perm[i]]]

\* C29: every permutation of the list of schedules yields the same set of
\* unordered conflicting pairs.
C29_SymmetricInInputOrder ==
  rendered =>
    \A perm \in Permutations(1..Len(schedules)) :
      PairsOf(checkScheduleConflicts(Permuted(schedules, perm)).conflicts) = PairsOf(conflicts)

\* three schedules with conflicts whose reversal names the shifts the other
\* way round
C29_Witness ==
  /\ rendered
  /\ Len(schedules) = 3
  /\ Len(conflicts) >= 2
  /\ LET reversed == checkScheduleConflicts([i \in 1..3 |-> schedules[4 - i]]).conflicts IN
     /\ reversed # conflicts
     /\ reversed[1].shift1.id # conflicts[1].shift1.id

\* C30: hasConflict is true exactly when conflicts is non-empty; an empty
\* list, a single schedule and schedules all of one department give false and
\* an empty list.
C30_HasConflictIffNonEmpty ==
  rendered =>
    /\ hasConflict <=> (Len(conflicts) > 0)
    /\ (\/ Len(schedules) <= 1
        \/ \A i, j \in 1..Len(schedules) :
             schedules[i].department.id = schedules[j].department.id)
       => (~hasConflict /\ conflicts = <<>>)

\* three schedules of d2 whose shifts are all Monday 09-13: no conflict
C30_Witness ==
  /\ rendered
  /\ Len(schedules) = 3
  /\ \A i \in 1..3 :
       /\ schedules[i].department.id = "d2"
       /\ Len(schedules[i].schedules) = 1
       /\ schedules[i].schedules[1].startTime = Stamp(0, 1, 9)
  /\ ~hasConflict /\ conflicts = <<>>

(***************************************************************************)
(* Properties of the clock.                                                *)
(***************************************************************************)
ClockUsers == {"bob", "cy"}

\* a user has at most one entry with a null clockOut
AtMostOneOpen == \A u \in ClockUsers : Cardinality(OpenEntries(timeEntries, u)) <= 1

\* the clockIn requests this step answers
AnsweredNow(kind) ==
  {r \in requests : r.kind = kind /\ ~r.answered /\
     \E a \in requests' : a.rid = r.rid /\ a.answered}

AnswerTo(r) == CHOOSE a \in requests' : a.rid = r.rid

\* a clockIn answered while its user has an open entry fails with Conflict
\* and creates no entry
ConflictOnOpen ==
  \A r \in AnsweredNow("clockIn") :
    OpenEntries(timeEntries, r.userId) # {} =>
      /\ AnswerTo(r).response.error = "Conflict"
      /\ AnswerTo(r).response.data = NoEntry
      /\ timeEntries' = timeEntries

\* C1: under every interleaving of clockIn and clockOut requests, two
\* concurrent clockIn requests of one user included, a user has at most one
\* TimeEntry with a null clockOut, and a clockIn for a user who has an open
\* entry fails with Conflict and creates no entry.
C1_AtMostOneOpenEntry == []AtMostOneOpen /\ [][ConflictOnOpen]_vars

\* two clockIn requests of one user were in flight together: one was
\* answered with the new entry, the other with Conflict
C1_Witness ==
  \E r1, r2 \in requests :
    /\ r1.kind = "clockIn" /\ r2.kind = "clockIn"
    /\ r1.userId = r2.userId
    /\ r1.answered /\ r1.response.success /\ r1.response.data \in timeEntries
    /\ r2.answered /\ r2.response.error = "Conflict"
    /\ Cardinality(OpenEntries(timeEntries, r1.userId)) = 1

\* timeEntryId is the open entry of userId
IsOpenEntryOf(timeEntryId, userId) ==
  \E e \in timeEntries : e.id = timeEntryId /\ e.userId = userId /\ e.clockOut = NoTime

\* the answered requests whose handler resumes in this step
ResumedNow == {r \in requests : r.answered /\ \A a \in requests' : a.rid # r.rid}

\* C14: clockOut succeeds only for the open entry of the user; for any other
\* entry it answers with an error and no TimeEntry changes, and the handler
\* that receives the error leaves currentEntry and recentEntries as they are.
C14_ClockOutOnlyOpenEntry ==
  [][/\ \A r \in AnsweredNow("clockOut") :
          /\ AnswerTo(r).response.success => IsOpenEntryOf(r.arg, r.userId)
          /\ ~IsOpenEntryOf(r.arg, r.userId)
             => /\ AnswerTo(r).response.error # NoError
                /\ ~AnswerTo(r).response.success
                /\ timeEntries' = timeEntries
     /\ \A r \in ResumedNow :
          (r.kind = "clockOut" /\ r.response.error # NoError)
          => (currentEntry' = currentEntry /\ recentEntries' = recentEntries)]_vars

\* the button was pressed twice while clocked in: the second clockOut found
\* the entry closed, was answered NotFound, and its page showed the error
C14_Witness ==
  \E s \in Sessions :
    /\ Len(toasts[s]) >= 3
    /\ toasts[s][Len(toasts[s])] = "Error"
    /\ currentEntry[s] = NoEntry
    /\ \A e \in timeEntries : e.clockOut # NoTime
    /\ Cardinality(timeEntries) = 2
    /\ requests = {}

\* secs seconds in hundredths of an hour, rounded half up
HoursHalfUp(secs) == (secs * 100 + 1800) \div 3600

\* ... rounded half to even
HoursHalfEven(secs) ==
  IF secs % 36 = 18 /\ (secs \div 36) % 2 = 0 THEN secs \div 36 ELSE HoursHalfUp(secs)

\* C15: the hours of the entry a clock-out completes is clockOut - clockIn in
\* hours rounded to 2 decimal places (a tie to the larger or to the even
\* hundredth); 09:00:00 to 17:30:00 gives 8.50.
C15_HoursRoundedTo2Places ==
  [][\A r \in ResumedNow :
       (r.kind = "clockOut" /\ r.response.error = NoError /\ r.response.success
        /\ r.response.data # NoEntry /\ r.current # NoEntry)
       => \A i \in 1..Len(recentEntries'[r.sid]) :
            LET e == recentEntries'[r.sid][i] IN
            e.id = r.current.id
            => e.hours \in {HoursHalfUp(e.clockOut - e.clockIn),
                            HoursHalfEven(e.clockOut - e.clockIn)}]_vars

\* C17: a handler that receives the result of its request shows exactly one
\* notification: Error when the result carries an error, Success otherwise;
\* handleRemoveDepartment likewise.
C17_OneNotificationPerRequest ==
  [][/\ \A r \in ResumedNow :
          toasts'[r.sid] = Append(toasts[r.sid],
                             IF r.response.error # NoError THEN "Error" ELSE "Success")
     /\ pageDepartments' # pageDepartments
        => \E s \in Sessions : toasts'[s] = Append(toasts[s], "Success")]_vars

\* the result r carries is a confirmed one: no error, data and success
Confirmed(r) ==
  r.response.error = NoError /\ r.response.data # NoEntry /\ r.response.success

\* C24: clockIn(newEntry) sets the current entry to newEntry and makes the
\* recent list newEntry followed by the entries listed before, in their order.
C24_ClockInPrepends ==
  [][\A r \in ResumedNow :
       (r.kind = "clockIn" /\ Confirmed(r))
       => /\ currentEntry'[r.sid] = r.response.data
          /\ recentEntries'[r.sid] = <<r.response.data>> \o recentEntries[r.sid]]_vars

\* C25: clockOut(timeEntryId) with a current entry replaces the list items
\* with that id by the completed entry (same id, clockOut and hours set),
\* keeps the length, the order and every other item, and sets the current
\* entry to none; with no current entry it changes nothing.
C25_ClockOutReplacesInPlace ==
  [][\A r \in ResumedNow :
       (r.kind = "clockOut" /\ Confirmed(r))
       => LET prev == recentEntries[r.sid]
              next == recentEntries'[r.sid]
          IN IF r.current = NoEntry
             THEN next = prev /\ currentEntry'[r.sid] = currentEntry[r.sid]
             ELSE /\ Len(next) = Len(prev)
                  /\ \A i \in 1..Len(prev) :
                       IF prev[i].id = r.arg
                       THEN /\ next[i].id = r.arg
                            /\ next[i].clockOut # NoTime
                            /\ next[i].hours # NoTime
                            /\ next[i].clockIn = prev[i].clockIn
                       ELSE next[i] = prev[i]
                  /\ currentEntry'[r.sid] = NoEntry]_vars

\* bob clocked in and out on the first page: the list is the completed entry
\* followed by the old one, and there is no current entry
C25_Witness ==
  /\ currentEntry[1] = NoEntry
  /\ Len(recentEntries[1]) = 2
  /\ recentEntries[1][1].id = 2
  /\ recentEntries[1][1].clockOut # NoTime
  /\ recentEntries[1][1].hours # NoTime
  /\ recentEntries[1][2] = OldEntry
  /\ toasts[1] = <<"Success", "Success">>

\* C26: the display is 00:00:00 without a current entry; when the interval
\* sets it, it is <<HH, MM, SS>> with HH = d div 3600, MM = (d mod 3600) div
\* 60, SS = d mod 60 for d = now - clockIn, so MM and SS are in 0..59 and
\* HH*3600 + MM*60 + SS = d; and that step changes no entry of the client or
\* of the server.
C26_ElapsedDisplay ==
  /\ [](\A s \in Sessions : currentEntry[s] = NoEntry => time[s] = ZeroTime)
  /\ [][\A s \in Sessions :
          (time'[s] # time[s] /\ time'[s] # ZeroTime)
          => LET d == now - currentEntry[s].clockIn IN
             /\ d >= 0
             /\ time'[s] = <<d \div 3600, (d % 3600) \div 60, d % 60>>
             /\ time'[s][2] \in 0..59 /\ time'[s][3] \in 0..59
             /\ time'[s][1] * 3600 + time'[s][2] * 60 + time'[s][3] = d
             /\ currentEntry' = currentEntry
             /\ recentEntries' = recentEntries
             /\ timeEntries' = timeEntries]_vars

\* bob clocked in at 08:30:00 and the display shows 08:30:54 two ticks later
C26_Witness ==
  /\ currentEntry[1] # NoEntry
  /\ now - currentEntry[1].clockIn = 30654
  /\ time[1] = <<8, 30, 54>>

\* C27: currentEntry and recentEntries change only when a handler resumes
\* with a confirmed result; a result with an error, a press with no user or
\* with no department selected, leave them as they are.
C27_MirrorsConfirmedResultsOnly ==
  [][(currentEntry' # currentEntry \/ recentEntries' # recentEntries)
     => \E r \in ResumedNow :
          /\ Confirmed(r)
          /\ \A s \in Sessions \ {r.sid} :
               currentEntry'[s] = currentEntry[s] /\ recentEntries'[s] = recentEntries[s]]_vars

\* the second page has no user and was pressed, the first received an error
\* carrying data and success: nothing has changed on either
C27_Witness ==
  /\ sessUser[2] = NoUser
  /\ npress = 2
  /\ requests = {}
  /\ toasts = <<(<<"Error">>), (<<>>)>>
  /\ nextEntryId = 3
  /\ currentEntry = [s \in Sessions |-> NoEntry]
  /\ recentEntries = <<(<<OldEntry>>), (<<>>)>>

\* the positions of the recent list of page s with a null clockOut
OpenItems(s) == {i \in 1..Len(recentEntries[s]) : recentEntries[s][i].clockOut = NoTime}

\* C28: the recent list of a page holds at most one item with a null
\* clockOut, and holds one exactly when the current entry is set, that item
\* having the id of the current entry.
C28_OpenItemIsCurrentEntry ==
  \A s \in Sessions :
    /\ Cardinality(OpenItems(s)) <= 1
    /\ (OpenItems(s) # {}) <=> (currentEntry[s] # NoEntry)
    /\ \A i \in OpenItems(s) : recentEntries[s][i].id = currentEntry[s].id

====
